---- MODULE Spec2Model ----
(***************************************************************************)
(* Anki card generator (src/main.py): the console loop run_cli, the GUI    *)
(* Wizard, the pre-generation pool, the dictionary scrape with retry and   *)
(* the card writer, as state machines.                                     *)
(*                                                                         *)
(* Texts are sequences of one-character strings, so that strip(), lower(), *)
(* concatenation and splitting are computed as Python computes them.       *)
(* The remote services (dictionary page, LLM endpoint) and the operator    *)
(* are the environment: their answers are drawn from small sets.           *)
(* find_contexts only feeds the LLM prompt, and the LLM's answer is        *)
(* already arbitrary, so the corpus is not part of the state here.         *)
(***************************************************************************)
EXTENDS Integers, Sequences, FiniteSets, TLC

(***************************************************************************)
(* Bounds of the model                                                     *)
(***************************************************************************)
\* longest word list read from the word-list file
MaxWords == 2
\* longest entry list handed to write_anki in SpecWrite
MaxCards == 2
\* largest worker pool tried for pregen_definitions
MaxWorkers == 2
\* longest list of entries the Wizard is let to grow to (duplicate, split)
MaxEntries == 2
\* most content edits (typing into a field, choosing a card type, pressing a
\* Generate button) the operator makes in one Wizard session
MaxEdits == 1
\* lines of a word file
MaxLines == 4
\* longest book text searched for contexts
MaxTextLen == 4
\* largest span (characters kept on each side of a match) of find_contexts
MaxSpan == 1
\* largest max_ctx (snippets asked for) of find_contexts
MaxCtx == 2

(***************************************************************************)
(* Text helpers (Python str methods)                                       *)
(***************************************************************************)
\* characters str.strip() removes
Whitespace == {" ", "\n"}

RECURSIVE lstrip(_)
lstrip(s) ==
    IF s = <<>> THEN s
    ELSE IF Head(s) \in Whitespace THEN lstrip(Tail(s)) ELSE s

RECURSIVE rstrip(_)
rstrip(s) ==
    IF s = <<>> THEN s
    ELSE IF s[Len(s)] \in Whitespace THEN rstrip(SubSeq(s, 1, Len(s) - 1)) ELSE s

strip(s) == rstrip(lstrip(s))

\* str.lower() on the letters the operator's answers use
LowerChar(c) ==
    CASE c = "S" -> "s"
      [] c = "L" -> "l"
      [] c = "N" -> "n"
      [] c = "R" -> "r"
      [] c = "B" -> "b"
      [] OTHER -> c

lower(s) == [p \in 1..Len(s) |-> LowerChar(s[p])]

\* "sup2" stands for the one character U+00B2 (superscript two): str.isdigit()
\* accepts it and int() raises ValueError on it
AsciiDigits == {"0", "1", "2", "3", "4", "5", "6", "7", "8", "9"}

isdigit(s) == s # <<>> /\ \A p \in 1..Len(s) : s[p] \in AsciiDigits \cup {"sup2"}

IntParses(s) == \A p \in 1..Len(s) : s[p] \in AsciiDigits

DigitVal(c) ==
    CASE c = "0" -> 0 [] c = "1" -> 1 [] c = "2" -> 2 [] c = "3" -> 3
      [] c = "4" -> 4 [] c = "5" -> 5 [] c = "6" -> 6 [] c = "7" -> 7
      [] c = "8" -> 8 [] c = "9" -> 9

RECURSIVE int(_)
int(s) ==
    IF s = <<>> THEN 0
    ELSE 10 * int(SubSeq(s, 1, Len(s) - 1)) + DigitVal(s[Len(s)])

(***************************************************************************)
(* Card writer                                                             *)
(***************************************************************************)
NoFile == [written |-> FALSE, rows |-> <<>>]

HeaderRow == << <<"f", "r", "o", "n", "t">>, <<"b", "a", "c", "k">> >>

RECURSIVE RowsOfType(_, _)
RowsOfType(cards, t) ==
    IF cards = <<>> THEN <<>>
    ELSE LET c == Head(cards)
             rest == RowsOfType(Tail(cards), t)
         IN IF c[3] = t THEN << <<c[1], c[2]>> >> \o rest ELSE rest

RECURSIVE RowsNotOfType(_, _)
RowsNotOfType(cards, t) ==
    IF cards = <<>> THEN <<>>
    ELSE LET c == Head(cards)
             rest == RowsNotOfType(Tail(cards), t)
         IN IF c[3] # t THEN << <<c[1], c[2]>> >> \o rest ELSE rest

\* a mis-partitioning writer: every entry that is not 'br' goes to the basic file
write_anki_else_basic(cards, old) ==
    LET basics == RowsNotOfType(cards, "br")
        revs == RowsOfType(cards, "br")
    IN [basic |-> IF basics # <<>> THEN [written |-> TRUE, rows |-> <<HeaderRow>> \o basics]
                  ELSE old.basic,
        rev   |-> IF revs # <<>> THEN [written |-> TRUE, rows |-> <<HeaderRow>> \o revs]
                  ELSE old.rev]

\* the two files after write_anki(cards), given the two files before it
write_anki(cards, old) ==
    LET basics == RowsOfType(cards, "b")
        revs == RowsOfType(cards, "br")
    IN [basic |-> IF basics # <<>> THEN [written |-> TRUE, rows |-> <<HeaderRow>> \o basics]
                  ELSE old.basic,
        rev   |-> IF revs # <<>> THEN [written |-> TRUE, rows |-> <<HeaderRow>> \o revs]
                  ELSE old.rev]

(***************************************************************************)
(* Dictionary scrape with retry                                            *)
(***************************************************************************)
\* fetch_definitions(word, retries=3, ...)
Retries == 3

DEF_X == <<"x">>
DEF_Y == <<"y">>

\* what one requests.get can do: raise, answer with another status, or answer
\* 200 with a page holding these definition blocks (possibly none)
AttemptOutcomes ==
    { [kind |-> "exception", defs |-> <<>>],
      [kind |-> "non200", defs |-> <<>>],
      [kind |-> "ok200", defs |-> <<>>],
      [kind |-> "ok200", defs |-> <<DEF_X, DEF_Y>>] }

\* an attempt that gives up on the first non-200 answer instead of retrying
fetch_attempt_giveup(o) ==
    CASE o.kind = "exception" ->
            [returns |-> FALSE, raises |-> FALSE, defs |-> <<>>, sleeps |-> TRUE]
      [] o.kind = "non200" ->
            [returns |-> TRUE, raises |-> FALSE, defs |-> <<>>, sleeps |-> FALSE]
      [] OTHER ->
            [returns |-> o.defs # <<>>, raises |-> FALSE, defs |-> o.defs, sleeps |-> FALSE]

\* one pass through the body of the retry loop
\* (the except clause catches every Exception of the request and of the parse)
fetch_attempt(o) ==
    CASE o.kind = "exception" ->
            [returns |-> FALSE, raises |-> FALSE, defs |-> <<>>, sleeps |-> TRUE]
      [] o.kind = "non200" ->
            [returns |-> FALSE, raises |-> FALSE, defs |-> <<>>, sleeps |-> FALSE]
      [] OTHER ->
            [returns |-> o.defs # <<>>, raises |-> FALSE, defs |-> o.defs, sleeps |-> FALSE]

RECURSIVE FetchFrom(_, _)
FetchFrom(outs, n) ==
    IF n > Retries THEN <<>>
    ELSE LET a == fetch_attempt(outs[n])
         IN IF a.returns THEN a.defs ELSE FetchFrom(outs, n + 1)

\* the value fetch_definitions returns when its attempts end as outs[1..Retries]
fetch_definitions(outs) == FetchFrom(outs, 1)

FetchPatterns == [1..Retries -> AttemptOutcomes]

(***************************************************************************)
(* Definition splitter                                                     *)
(***************************************************************************)
RECURSIVE SkipWhile(_, _, _)
\* the first position from p on whose character is not in cs (Len(s) + 1 if none)
SkipWhile(s, p, cs) ==
    IF p <= Len(s) /\ s[p] \in cs THEN SkipWhile(s, p + 1, cs) ELSE p

\* re.MULTILINE '^\d+\.\s*' at position p: the position after the match, 0 if none
MarkerEnd(s, p) ==
    LET q == SkipWhile(s, p, AsciiDigits)
    IN IF /\ (p = 1 \/ s[p - 1] = "\n")
          /\ q > p
          /\ q <= Len(s)
          /\ s[q] = "."
       THEN SkipWhile(s, q + 1, Whitespace)
       ELSE 0

RECURSIVE ReSplit(_, _, _)
\* re.split: the pieces of s between the markers, scanning from p, the current
\* piece having begun at from
ReSplit(s, p, from) ==
    IF p > Len(s) THEN << SubSeq(s, from, Len(s)) >>
    ELSE IF MarkerEnd(s, p) # 0
         THEN << SubSeq(s, from, p - 1) >> \o ReSplit(s, MarkerEnd(s, p), MarkerEnd(s, p))
         ELSE ReSplit(s, p + 1, from)

RECURSIVE StripEach(_)
\* [item.strip() for item in pieces if item.strip()]
StripEach(pieces) ==
    IF pieces = <<>> THEN <<>>
    ELSE IF strip(Head(pieces)) = <<>> THEN StripEach(Tail(pieces))
         ELSE << strip(Head(pieces)) >> \o StripEach(Tail(pieces))

RECURSIVE lstrip_chars(_, _)
lstrip_chars(s, cs) ==
    IF s # <<>> /\ Head(s) \in cs THEN lstrip_chars(Tail(s), cs) ELSE s

RECURSIVE rstrip_chars(_, _)
rstrip_chars(s, cs) ==
    IF s # <<>> /\ s[Len(s)] \in cs THEN rstrip_chars(SubSeq(s, 1, Len(s) - 1), cs) ELSE s

\* str.strip(chars)
strip_chars(s, cs) == rstrip_chars(lstrip_chars(s, cs), cs)

\* the position of the first sub in s at or after p, 0 if there is none
RECURSIVE Find(_, _, _)
Find(s, sub, p) ==
    IF p + Len(sub) - 1 > Len(s) THEN 0
    ELSE IF SubSeq(s, p, p + Len(sub) - 1) = sub THEN p
         ELSE Find(s, sub, p + 1)

\* s.split(sep, 1)
split_once(s, sep) ==
    LET p == Find(s, sep, 1)
    IN IF p = 0 THEN << s >>
       ELSE << SubSeq(s, 1, p - 1), SubSeq(s, p + Len(sep), Len(s)) >>

DigitChar(n) ==
    CASE n = 0 -> "0" [] n = 1 -> "1" [] n = 2 -> "2" [] n = 3 -> "3" [] n = 4 -> "4"
      [] n = 5 -> "5" [] n = 6 -> "6" [] n = 7 -> "7" [] n = 8 -> "8" [] n = 9 -> "9"

RECURSIVE str(_)
\* str(n) of a natural number
str(n) == IF n < 10 THEN << DigitChar(n) >> ELSE str(n \div 10) \o << DigitChar(n % 10) >>

\* a labelling that keeps the parentheses of the text before the colon
SenseEntry_keep_parens(word, item, idx) ==
    IF Find(item, <<":">>, 1) # 0
    THEN LET parts == split_once(item, <<":">>)
         IN << word \o <<" ", "(">> \o strip(parts[1]) \o <<")">>, strip(parts[2]) >>
    ELSE << word \o <<" ", "(", "s", "e", "n", "s", "e", " ">> \o str(idx) \o <<")">>,
            strip(item) >>

\* lines 127-136: the (new_word, definition) pair of the idx-th item
SenseEntry(word, item, idx) ==
    IF Find(item, <<":">>, 1) # 0
    THEN LET parts == split_once(item, <<":">>)
         IN << word \o <<" ", "(">> \o strip_chars(parts[1], {"(", ")", " "}) \o <<")">>,
               strip(parts[2]) >>
    ELSE << word \o <<" ", "(", "s", "e", "n", "s", "e", " ">> \o str(idx) \o <<")">>,
            strip(item) >>

parse_definitions(def_text, word) ==
    LET items == StripEach(ReSplit(def_text, 1, 1))
    IN IF Len(items) > 1
       THEN [idx \in 1..Len(items) |-> SenseEntry(word, items[idx], idx)]
       ELSE << <<word, def_text>> >>

(***************************************************************************)
(* LLM endpoint                                                            *)
(***************************************************************************)
\* llm_call returns the stripped completion, or raises (raise_for_status,
\* a timeout, a malformed body)
LlmFailure == [ok |-> FALSE, text |-> <<>>]

LlmDefTexts == {<<"m">>}
LlmExTexts == {<<"e">>}

\* gen_definition(word, ctx)
gen_definition == {[ok |-> TRUE, text |-> t] : t \in LlmDefTexts} \cup {LlmFailure}

\* gen_example(word, definition, ctx)
gen_example == {[ok |-> TRUE, text |-> t] : t \in LlmExTexts} \cup {LlmFailure}

(***************************************************************************)
(* Python dict as the sequence of its (key, value) items in insertion order *)
(***************************************************************************)
DictKeys(dct) == {dct[p][1] : p \in 1..Len(dct)}

DictHas(dct, key) == key \in DictKeys(dct)

DictGet(dct, key) == dct[CHOOSE p \in 1..Len(dct) : dct[p][1] = key][2]

DictSet(dct, key, val) ==
    IF DictHas(dct, key)
    THEN [p \in 1..Len(dct) |-> IF dct[p][1] = key THEN <<key, val>> ELSE dct[p]]
    ELSE Append(dct, <<key, val>>)

(***************************************************************************)
(* State                                                                   *)
(***************************************************************************)
VARIABLES
    pc,            \* where the run is: "start", "pregen", "pregen_shutdown",
                   \* "def_prompt", "card_prompt", "gui", "done", "aborted"
    gui,           \* args.gui
    pregen_llm,    \* args.pregen_llm
    words,         \* the deduped word list (Wizard.words in the GUI)
    pregen_defs,   \* word -> definition, filled by pregen_definitions
    num_workers,   \* max_workers of the pool (0: no pool exists)
    tasks,         \* one future per word: [st, text, runs]
    collected,     \* how many results the executor.map iterator has yielded
    progress,      \* the words of the "Generated definition for" lines, in order
    widx,          \* run_cli: index of the word of the current iteration
    defs,          \* run_cli: candidate definitions shown for the word
    d,             \* run_cli: the chosen definition
    ex,            \* run_cli: the generated example
    anki_cards,    \* run_cli: accumulated (word, back, type) entries
    skipped,       \* run_cli: the skipped list
    files,         \* [basic, rev]: anki_basic.csv and anki_basic_reversed.csv
    calls,         \* history: definition sources consulted for the word shown
    scraped,       \* history: what fetch_definitions returned for the word shown
    fate,          \* history: per word, what the console run made of it
    last_input,    \* history: the operator's last console answer
    llm_failed,    \* history: an LLM call of the main thread has raised
    ex_log,        \* history: the word indices gen_example was called for, in order
    orig_words,    \* Wizard.orig_words
    data,          \* Wizard.data: one dict per entry, {} as NoData
    i,             \* Wizard.i, 0-based
    word_var,      \* content of the Word entry
    def_txt,       \* content of the Definition text area
    ex_txt,        \* content of the Example text area
    card_type,     \* the card-type radio buttons: "b", "br", "n"
    results,       \* Wizard.results
    edits,         \* history: content edits made so far in the Wizard
    fd_outs,       \* fetch_definitions: how each request will end
    fd_n,          \* fetch_definitions: the attempt about to be made (1-based)
    fd_pc,         \* fetch_definitions: "idle", "loop", "returned", "raised"
    fd_ret,        \* fetch_definitions: the returned list
    fd_log,        \* fetch_definitions: the requests and sleeps made, in order
    arg,           \* a function taken on its own: its arguments
    ret            \* a function taken on its own: what it returned

runVars == <<pc, gui, pregen_llm, words, pregen_defs>>
poolVars == <<num_workers, tasks, collected, progress>>
cliVars == <<widx, defs, d, ex, anki_cards, skipped, files, calls, scraped, fate, llm_failed,
             ex_log>>
fetchVars == <<fd_outs, fd_n, fd_pc, fd_ret, fd_log>>
guiVars == <<orig_words, data, i, word_var, def_txt, ex_txt, card_type, results, edits>>
pureVars == <<arg, ret>>
vars == <<runVars, poolVars, cliVars, last_input, guiVars, fetchVars, pureVars>>

WordList == << <<"c">>, <<"d">>, <<"f">> >>

NoInput == [prompt |-> "none", widx |-> 0, raw |-> <<>>, shown |-> 0]

NoFiles == [basic |-> NoFile, rev |-> NoFile]

FetchIdle ==
    /\ fd_outs = <<>>
    /\ fd_n = 0
    /\ fd_pc = "idle"
    /\ fd_ret = <<>>
    /\ fd_log = <<>>

PureIdle ==
    /\ arg = <<>>
    /\ ret = <<>>

PoolIdle ==
    /\ num_workers = 0
    /\ tasks = <<>>
    /\ collected = 0
    /\ progress = <<>>

CliIdle ==
    /\ widx = 0
    /\ defs = <<>>
    /\ d = <<>>
    /\ ex = <<>>
    /\ anki_cards = <<>>
    /\ skipped = <<>>
    /\ files = NoFiles
    /\ calls = <<>>
    /\ scraped = <<>>
    /\ fate = <<>>
    /\ llm_failed = FALSE
    /\ ex_log = <<>>
    /\ last_input = NoInput

GuiIdle ==
    /\ orig_words = <<>>
    /\ data = <<>>
    /\ i = 0
    /\ word_var = <<>>
    /\ def_txt = <<>>
    /\ ex_txt = <<>>
    /\ card_type = "b"
    /\ results = <<>>
    /\ edits = 0

\* the state when run_cli / run_gui has read and deduped the word list
Init ==
    /\ pc = "start"
    /\ gui \in BOOLEAN
    /\ pregen_llm \in BOOLEAN
    /\ words \in {SubSeq(WordList, 1, n) : n \in 0..MaxWords}
    /\ pregen_defs = <<>>
    /\ PoolIdle
    /\ CliIdle
    /\ GuiIdle
    /\ FetchIdle
    /\ PureIdle

(***************************************************************************)
(* run_cli                                                                 *)
(***************************************************************************)
BR == <<"<", "b", "r", ">">>

\* a loop body whose (n)one answer does not leave the iteration
cli_card_keep_none(w, dd, e, card_choice) ==
    << <<w, dd \o BR \o BR \o e, IF card_choice = <<"r">> THEN "br" ELSE "b">> >>

\* what the card-type answer appends to anki_cards
cli_card(w, dd, e, card_choice) ==
    IF card_choice = <<"n">> THEN <<>>
    ELSE << <<w, dd \o BR \o BR \o e, IF card_choice = <<"r">> THEN "br" ELSE "b">> >>

\* a run that saves what it has when an LLM call raises
on_llm_failure_salvage(cards, fl) == write_anki(cards, fl)

\* an exception of llm_call leaves run_cli before write_anki: the files stay
on_llm_failure(cards, fl) == fl

\* a lookup that never falls back to the LLM
cli_needs_llm_never(got) == FALSE

\* "if not defs": the scrape came back empty
cli_needs_llm(got) == got = <<>>

\* a loop that looks every word up, cache or not
cli_uses_pregen_never(pd, w) == FALSE

\* "if pregen_defs and w in pregen_defs"
cli_uses_pregen(pd, w) == pd # <<>> /\ DictHas(pd, w)

\* an accumulation that puts the newest entry first
cli_accumulate_front(cards, added) == added \o cards

\* anki_cards.append((w, ..., card_type))
cli_accumulate(cards, added) == cards \o added

CliBase(kk, cards, sk, ft) ==
    [pc |-> "done", widx |-> kk, defs |-> <<>>, d |-> <<>>, ex |-> <<>>,
     anki_cards |-> cards, skipped |-> sk, files |-> files, calls |-> <<>>,
     scraped |-> <<>>, fate |-> ft, llm_failed |-> llm_failed, ex_log |-> ex_log]

\* an exception leaves run_cli
CliRaise(kk, cards, sk, ft, llm) ==
    [CliBase(kk, cards, sk, ft) EXCEPT
        !.pc = "aborted",
        !.llm_failed = llm \/ llm_failed,
        !.files = IF llm THEN on_llm_failure(cards, files) ELSE files]

\* lines 187-190: the example is generated and the card-type prompt is shown
CliExample(kk, cards, sk, ft, dd, cl, sc) ==
    { IF r.ok
      THEN [CliBase(kk, cards, sk, ft) EXCEPT
                !.pc = "card_prompt", !.d = dd, !.ex = r.text,
                !.calls = cl, !.scraped = sc, !.ex_log = Append(ex_log, kk)]
      ELSE [CliRaise(kk, cards, sk, ft, TRUE) EXCEPT !.ex_log = Append(ex_log, kk)]
    : r \in gen_example }

\* lines 162-174 and 195-196: from the head of the loop to the next prompt,
\* or past the last word to write_anki
CliLoop(kk, cards, sk, ft, pd) ==
    IF kk > Len(words)
    THEN { [CliBase(kk, cards, sk, ft) EXCEPT !.files = write_anki(cards, files)] }
    ELSE IF cli_uses_pregen(pd, words[kk])
    THEN CliExample(kk, cards, sk, ft, DictGet(pd, words[kk]), <<"pregen">>, <<>>)
    ELSE UNION { LET got == fetch_definitions(outs)
                 IN IF cli_needs_llm(got)
                    THEN { IF r.ok
                           THEN [CliBase(kk, cards, sk, ft) EXCEPT
                                    !.pc = "def_prompt",
                                    !.defs = Append(got, r.text),
                                    !.calls = <<"scrape", "llm">>,
                                    !.scraped = got]
                           ELSE CliRaise(kk, cards, sk, ft, TRUE) : r \in gen_definition }
                    ELSE { [CliBase(kk, cards, sk, ft) EXCEPT
                                !.pc = "def_prompt",
                                !.defs = got,
                                !.calls = <<"scrape">>,
                                !.scraped = got] }
               : outs \in FetchPatterns }

CliSet(s) ==
    /\ pc' = s.pc
    /\ widx' = s.widx
    /\ defs' = s.defs
    /\ d' = s.d
    /\ ex' = s.ex
    /\ anki_cards' = s.anki_cards
    /\ skipped' = s.skipped
    /\ files' = s.files
    /\ calls' = s.calls
    /\ scraped' = s.scraped
    /\ fate' = s.fate
    /\ llm_failed' = s.llm_failed
    /\ ex_log' = s.ex_log

SetFate(ft, kk, what) == [ft EXCEPT ![kk] = what]

\* what the operator may type at a console prompt
DefAnswers == { <<"s">>, <<" ", "S">>, <<"l">>, <<"1">>, <<"2">>, <<"0">>,
                <<"x">>, <<>>, <<"sup2">> }

CardAnswers == { <<"b">>, <<"r">>, <<"R">>, <<"n">>, <<"N">>, <<" ", "n">>,
                 <<"x">>, <<>> }

\* lines 174-190: the answer to "pick #, 'l' for llm def, 's' skip: "
CliAnswerDefinition(raw) ==
    /\ pc = "def_prompt"
    /\ last_input' = [prompt |-> "def", widx |-> widx, raw |-> raw, shown |-> Len(defs)]
    /\ LET choice == strip(lower(raw))
           w == words[widx]
       IN \E s \in
            IF choice = <<"s">>
            THEN CliLoop(widx + 1, anki_cards, Append(skipped, w),
                         SetFate(fate, widx, "skipped"), pregen_defs)
            ELSE IF choice = <<"l">>
            THEN UNION { IF r.ok
                         THEN CliExample(widx, anki_cards, skipped, fate, r.text,
                                         Append(calls, "llm_asked"), scraped)
                         ELSE { CliRaise(widx, anki_cards, skipped, fate, TRUE) }
                       : r \in gen_definition }
            ELSE IF isdigit(choice) /\ ~IntParses(choice)
            THEN { CliRaise(widx, anki_cards, skipped, fate, FALSE) }
            ELSE IF isdigit(choice) /\ 1 <= int(choice) /\ int(choice) <= Len(defs)
            THEN CliExample(widx, anki_cards, skipped, fate, defs[int(choice)],
                            calls, scraped)
            ELSE CliLoop(widx + 1, anki_cards, skipped,
                         SetFate(fate, widx, "bad choice"), pregen_defs)
          : CliSet(s)
    /\ UNCHANGED <<gui, pregen_llm, words, pregen_defs, poolVars, guiVars, fetchVars, pureVars>>

\* lines 190-193: the answer to "anki card? (b)asic, (r)everse, (n)one: "
CliAnswerCardType(raw) ==
    /\ pc = "card_prompt"
    /\ last_input' = [prompt |-> "card", widx |-> widx, raw |-> raw, shown |-> 0]
    /\ LET card_choice == lower(raw)
           added == cli_card(words[widx], d, ex, card_choice)
       IN \E s \in CliLoop(widx + 1, cli_accumulate(anki_cards, added), skipped,
                           SetFate(fate, widx, IF card_choice = <<"n">> THEN "none" ELSE "card"),
                           pregen_defs)
          : CliSet(s)
    /\ UNCHANGED <<gui, pregen_llm, words, pregen_defs, poolVars, guiVars, fetchVars, pureVars>>

(***************************************************************************)
(* Wizard (GUI)                                                            *)
(***************************************************************************)
NL2 == <<"\n", "\n">>

NoData == [has |-> FALSE, word |-> <<>>, text |-> <<>>, card_type |-> ""]

\* the Wizard's fields and the files, as one record
GuiNow ==
    [pc |-> pc, words |-> words, orig_words |-> orig_words, data |-> data, i |-> i,
     word_var |-> word_var, def_txt |-> def_txt, ex_txt |-> ex_txt,
     card_type |-> card_type, results |-> results, files |-> files,
     calls |-> calls, scraped |-> scraped, defs |-> defs]

GuiSet(s) ==
    /\ pc' = s.pc
    /\ words' = s.words
    /\ orig_words' = s.orig_words
    /\ data' = s.data
    /\ i' = s.i
    /\ word_var' = s.word_var
    /\ def_txt' = s.def_txt
    /\ ex_txt' = s.ex_txt
    /\ card_type' = s.card_type
    /\ results' = s.results
    /\ files' = s.files
    /\ calls' = s.calls
    /\ scraped' = s.scraped
    /\ defs' = s.defs

GuiFrame ==
    UNCHANGED <<gui, pregen_llm, poolVars, widx, d, ex, anki_cards, skipped, fate,
                llm_failed, ex_log, last_input, fetchVars, pureVars>>

\* a handler that is no content edit
NoEdit == UNCHANGED edits

\* a content edit, within the session's budget
OneEdit == edits < MaxEdits /\ edits' = edits + 1

\* Text.get('1.0', 'end'): the content and the widget's final newline
TextGet(content) == content \o <<"\n">>

current_word(g) == strip(g.word_var)

InsertAt(seq, pos, x) == SubSeq(seq, 1, pos) \o <<x>> \o SubSeq(seq, pos + 1, Len(seq))

RemoveAt(seq, pos) == SubSeq(seq, 1, pos - 1) \o SubSeq(seq, pos + 1, Len(seq))

save_current(g) ==
    IF g.i < Len(g.words)
    THEN [g EXCEPT !.data[g.i + 1] =
            [has |-> TRUE,
             word |-> current_word(g),
             text |-> strip(strip(TextGet(g.def_txt)) \o NL2 \o strip(TextGet(g.ex_txt))),
             card_type |-> g.card_type]]
    ELSE g

RECURSIVE finish_results(_)
\* lines 375-376
finish_results(dt) ==
    IF dt = <<>> THEN <<>>
    ELSE LET e == Head(dt)
         IN IF e.has /\ e.card_type \in {"b", "br"}
            THEN << <<e.word, e.text, e.card_type>> >> \o finish_results(Tail(dt))
            ELSE finish_results(Tail(dt))

finish(g) ==
    [g EXCEPT !.results = finish_results(g.data),
              !.files = write_anki(finish_results(g.data), g.files),
              !.pc = "done"]

\* show(): the states it can leave the Wizard in. An exception of
\* gen_definition leaves the fields cleared; raised inside __init__ it ends
\* run_gui, raised inside a Tk callback it is reported and the form stays up.
show(g, pd, in_init) ==
    IF g.i >= Len(g.words) THEN { finish(g) }
    ELSE LET dat == g.data[g.i + 1]
             w == IF dat.has THEN dat.word ELSE g.orig_words[g.i + 1]
             text == IF dat.has THEN dat.text ELSE <<>>
             ct == IF dat.has THEN dat.card_type ELSE "b"
             g0 == [g EXCEPT !.word_var = w, !.def_txt = <<>>, !.ex_txt = <<>>,
                             !.calls = <<>>, !.scraped = <<>>, !.defs = <<>>]
         IN IF text # <<>>
            THEN LET parts == split_once(text, NL2)
                 IN { [g0 EXCEPT !.def_txt = parts[1],
                                 !.ex_txt = IF Len(parts) > 1 THEN parts[2] ELSE <<>>,
                                 !.card_type = ct,
                                 !.calls = <<"saved">>] }
            ELSE IF DictHas(pd, w)
            THEN { [g0 EXCEPT !.def_txt = DictGet(pd, w),
                              !.card_type = ct,
                              !.calls = <<"pregen">>] }
            ELSE UNION {
                   LET got == fetch_definitions(outs)
                   IN IF got = <<>>
                      THEN { IF r.ok
                             THEN [g0 EXCEPT !.def_txt = r.text,
                                             !.card_type = ct,
                                             !.calls = <<"scrape", "llm">>,
                                             !.scraped = got,
                                             !.defs = << r.text >>]
                             ELSE [g0 EXCEPT !.pc = IF in_init THEN "aborted" ELSE g.pc,
                                             !.calls = <<"scrape", "llm", "raised">>,
                                             !.scraped = got]
                           : r \in gen_definition }
                      ELSE { [g0 EXCEPT !.def_txt = got[1],
                                        !.card_type = ct,
                                        !.calls = <<"scrape">>,
                                        !.scraped = got,
                                        !.defs = got] }
                 : outs \in FetchPatterns }

\* Wizard.__init__
WizardInit(pd) ==
    show([GuiNow EXCEPT !.pc = "gui",
                        !.orig_words = words,
                        !.data = [j \in 1..Len(words) |-> NoData],
                        !.i = 0,
                        !.word_var = <<>>, !.def_txt = <<>>, !.ex_txt = <<>>,
                        !.card_type = "b",
                        !.results = <<>>],
         pd, TRUE)

next ==
    /\ pc = "gui"
    /\ \E s \in show([save_current(GuiNow) EXCEPT !.i = @ + 1], pregen_defs, FALSE) : GuiSet(s)
    /\ UNCHANGED pregen_defs
    /\ NoEdit
    /\ GuiFrame

prev ==
    /\ pc = "gui"
    /\ i > 0
    /\ \E s \in show([save_current(GuiNow) EXCEPT !.i = @ - 1], pregen_defs, FALSE) : GuiSet(s)
    /\ UNCHANGED pregen_defs
    /\ NoEdit
    /\ GuiFrame

duplicate_word ==
    /\ pc = "gui"
    /\ Len(words) < MaxEntries
    /\ LET g == save_current(GuiNow)
           g1 == [g EXCEPT !.words = InsertAt(g.words, g.i + 1, current_word(g)),
                           !.orig_words = InsertAt(g.orig_words, g.i + 1, current_word(g)),
                           !.data = InsertAt(g.data, g.i + 1, NoData),
                           !.i = @ + 1]
       IN \E s \in show(g1, pregen_defs, FALSE) : GuiSet(s)
    /\ UNCHANGED pregen_defs
    /\ NoEdit
    /\ GuiFrame

reset_word ==
    /\ pc = "gui"
    /\ GuiSet([GuiNow EXCEPT !.word_var = orig_words[i + 1]])
    /\ UNCHANGED pregen_defs
    /\ NoEdit
    /\ GuiFrame

\* lines 318-320 without "del self.data[self.i]"
split_remove_keep_data(g) ==
    [g EXCEPT !.words = RemoveAt(g.words, g.i + 1),
              !.orig_words = RemoveAt(g.orig_words, g.i + 1)]

\* lines 318-320: the current entry leaves the three lists
split_remove(g) ==
    [g EXCEPT !.words = RemoveAt(g.words, g.i + 1),
              !.orig_words = RemoveAt(g.orig_words, g.i + 1),
              !.data = RemoveAt(g.data, g.i + 1)]

RECURSIVE InsertEntries_at_cursor(_, _, _, _)
\* a loop that inserts every new entry at self.i
InsertEntries_at_cursor(g, new_entries, pos, j) ==
    IF j > Len(new_entries) THEN g
    ELSE LET e == new_entries[j]
         IN InsertEntries_at_cursor(
               [g EXCEPT !.words = InsertAt(g.words, pos, e[1]),
                         !.orig_words = InsertAt(g.orig_words, pos, e[1]),
                         !.data = InsertAt(g.data, pos,
                                           [has |-> TRUE, word |-> e[1], text |-> e[2],
                                            card_type |-> "b"])],
               new_entries, pos, j + 1)

RECURSIVE InsertEntries(_, _, _, _)
\* lines 322-325: insert the j-th new entry at position pos + j of each list
InsertEntries(g, new_entries, pos, j) ==
    IF j > Len(new_entries) THEN g
    ELSE LET e == new_entries[j]
         IN InsertEntries(
               [g EXCEPT !.words = InsertAt(g.words, pos + j - 1, e[1]),
                         !.orig_words = InsertAt(g.orig_words, pos + j - 1, e[1]),
                         !.data = InsertAt(g.data, pos + j - 1,
                                           [has |-> TRUE, word |-> e[1], text |-> e[2],
                                            card_type |-> "b"])],
               new_entries, pos, j + 1)

\* lines 313-315: what the definition field parses into
split_entries(g) == parse_definitions(strip(TextGet(g.def_txt)), current_word(g))

\* the whole handler: with one pair only, the info box is shown and nothing
\* changes
split_word ==
    /\ pc = "gui"
    /\ LET g == GuiNow
           new_entries == split_entries(g)
       IN IF Len(new_entries) > 1
          THEN \E s \in show(InsertEntries(split_remove(g), new_entries, g.i, 1),
                            pregen_defs, FALSE)
                 : GuiSet(s)
          ELSE GuiSet(g)
    /\ UNCHANGED pregen_defs
    /\ NoEdit
    /\ GuiFrame

\* split_word while the entry list stays within MaxEntries
split_word_bounded ==
    /\ pc = "gui"
    /\ Len(words) - 1 + Len(split_entries(GuiNow)) <= MaxEntries
    /\ split_word

ins_llm_def ==
    /\ pc = "gui"
    /\ \E r \in gen_definition : GuiSet([GuiNow EXCEPT !.def_txt = r.text])
    /\ UNCHANGED pregen_defs
    /\ OneEdit
    /\ GuiFrame

ins_llm_ex ==
    /\ pc = "gui"
    /\ strip(TextGet(def_txt)) # <<>>
    /\ \E r \in gen_example : GuiSet([GuiNow EXCEPT !.ex_txt = r.text])
    /\ UNCHANGED pregen_defs
    /\ OneEdit
    /\ GuiFrame

append_both ==
    /\ pc = "gui"
    /\ \E r \in gen_definition :
         IF ~r.ok THEN GuiSet(GuiNow)
         ELSE \E e \in gen_example :
                GuiSet([GuiNow EXCEPT !.def_txt = r.text,
                                      !.ex_txt = IF e.ok THEN e.text ELSE @])
    /\ UNCHANGED pregen_defs
    /\ OneEdit
    /\ GuiFrame

\* what the operator may type into the form
WordEdits == { <<"g">> }
DefEdits == { <<>>, <<"1", ".", "p", "\n", "2", ".", "q">> }
ExEdits == { <<"v">> }
CardTypes == {"b", "br", "n"}

EditWord(t) ==
    /\ pc = "gui"
    /\ GuiSet([GuiNow EXCEPT !.word_var = t])
    /\ UNCHANGED pregen_defs
    /\ OneEdit
    /\ GuiFrame

EditDefinition(t) ==
    /\ pc = "gui"
    /\ GuiSet([GuiNow EXCEPT !.def_txt = t])
    /\ UNCHANGED pregen_defs
    /\ OneEdit
    /\ GuiFrame

EditExample(t) ==
    /\ pc = "gui"
    /\ GuiSet([GuiNow EXCEPT !.ex_txt = t])
    /\ UNCHANGED pregen_defs
    /\ OneEdit
    /\ GuiFrame

SelectCardType(c) ==
    /\ pc = "gui"
    /\ GuiSet([GuiNow EXCEPT !.card_type = c])
    /\ UNCHANGED pregen_defs
    /\ OneEdit
    /\ GuiFrame

\* the front end proper, entered with the pre-generated definitions pd
\* (lines 159-174 of run_cli, lines 407-410 of run_gui)
FrontEnd(pd) ==
    IF gui
    THEN /\ \E s \in WizardInit(pd) : GuiSet(s)
         /\ NoEdit
         /\ UNCHANGED <<widx, d, ex, anki_cards, skipped, fate, llm_failed, ex_log, last_input>>
    ELSE /\ \E s \in CliLoop(1, <<>>, <<>>, [j \in 1..Len(words) |-> "pending"], pd)
              : CliSet(s)
         /\ UNCHANGED <<words, last_input, guiVars>>

(***************************************************************************)
(* pregen_definitions                                                      *)
(***************************************************************************)
FirstWith(ts, sts) ==
    IF \E t \in 1..Len(ts) : ts[t].st \in sts
    THEN CHOOSE t \in 1..Len(ts) :
            ts[t].st \in sts /\ \A u \in 1..(t - 1) : ts[u].st \notin sts
    ELSE 0

\* a work queue that hands out a task until it is done
next_task_until_done(ts) == FirstWith(ts, {"queued", "running"})

\* the work queue is FIFO: an idle worker takes the oldest future not yet taken
next_task(ts) == FirstWith(ts, {"queued"})

Running(ts) == {t \in 1..Len(ts) : ts[t].st = "running"}

\* lines 148-157, 388-405: the run begins; with --pregen-llm every word is
\* submitted to the pool (executor.map)
Start ==
    /\ pc = "start"
    /\ IF pregen_llm /\ words # <<>>
       THEN /\ pc' = "pregen"
            /\ num_workers' \in 1..MaxWorkers
            /\ tasks' = [t \in 1..Len(words) |-> [st |-> "queued", text |-> <<>>, runs |-> 0]]
            /\ UNCHANGED <<words, cliVars, last_input, guiVars, collected, progress>>
       ELSE /\ FrontEnd(<<>>)
            /\ UNCHANGED <<num_workers, tasks, collected, progress>>
    /\ UNCHANGED <<gui, pregen_llm, pregen_defs, fetchVars, pureVars>>

\* a worker thread takes a future from the queue and calls gen_def(word)
TaskStart ==
    /\ pc \in {"pregen", "pregen_shutdown"}
    /\ Cardinality(Running(tasks)) < num_workers
    /\ next_task(tasks) # 0
    /\ tasks' = [tasks EXCEPT ![next_task(tasks)].st = "running",
                              ![next_task(tasks)].runs = @ + 1]
    /\ UNCHANGED <<runVars, num_workers, collected, progress, cliVars, last_input,
                   guiVars, fetchVars, pureVars>>

\* gen_def(word) returns or raises in its worker thread; when the main thread
\* is leaving the with block, the last worker to finish lets the exception out
TaskFinish(t, r) ==
    /\ pc \in {"pregen", "pregen_shutdown"}
    /\ t \in Running(tasks)
    /\ tasks' = [tasks EXCEPT ![t].st = IF r.ok THEN "done" ELSE "failed",
                              ![t].text = r.text]
    /\ pc' = IF pc = "pregen_shutdown" /\ Running(tasks) = {t} THEN "aborted" ELSE pc
    /\ num_workers' = IF pc = "pregen_shutdown" /\ Running(tasks) = {t} THEN 0 ELSE num_workers
    /\ UNCHANGED <<gui, pregen_llm, words, pregen_defs, collected, progress,
                   cliVars, last_input, guiVars, fetchVars, pureVars>>

\* lines 118-121: the main thread takes the next result, in the order of the
\* words; the result of a failed future raises there, the futures still
\* queued are cancelled and the with block waits for the running ones
Collect ==
    /\ pc = "pregen"
    /\ collected < Len(tasks)
    /\ LET t == collected + 1
           pd == DictSet(pregen_defs, words[t], tasks[t].text)
       IN \/ /\ tasks[t].st = "done"
             /\ pregen_defs' = pd
             /\ progress' = Append(progress, words[t])
             /\ collected' = t
             /\ IF t = Len(tasks)
                THEN FrontEnd(pd) /\ num_workers' = 0
                ELSE UNCHANGED <<pc, words, cliVars, last_input, guiVars, num_workers>>
             /\ UNCHANGED tasks
          \/ /\ tasks[t].st = "failed"
             /\ tasks' = [u \in 1..Len(tasks) |->
                            IF tasks[u].st = "queued"
                            THEN [tasks[u] EXCEPT !.st = "cancelled"] ELSE tasks[u]]
             /\ pc' = IF Running(tasks) = {} THEN "aborted" ELSE "pregen_shutdown"
             /\ num_workers' = IF Running(tasks) = {} THEN 0 ELSE num_workers
             /\ UNCHANGED <<pregen_defs, progress, collected, words, cliVars, last_input,
                            guiVars>>
    /\ UNCHANGED <<gui, pregen_llm, fetchVars, pureVars>>

Next ==
    \/ Start
    \/ TaskStart
    \/ \E t \in 1..MaxWords + 1, r \in gen_definition : TaskFinish(t, r)
    \/ Collect
    \/ \E raw \in DefAnswers : CliAnswerDefinition(raw)
    \/ \E raw \in CardAnswers : CliAnswerCardType(raw)
    \/ next
    \/ prev
    \/ duplicate_word
    \/ reset_word
    \/ split_word_bounded
    \/ ins_llm_def
    \/ ins_llm_ex
    \/ append_both
    \/ \E t \in WordEdits : EditWord(t)
    \/ \E t \in DefEdits : EditDefinition(t)
    \/ \E t \in ExEdits : EditExample(t)
    \/ \E c \in CardTypes : SelectCardType(c)

Spec == Init /\ [][Next]_vars

(***************************************************************************)
(* write_anki on its own: every entry list up to MaxCards                  *)
(***************************************************************************)
EntryBacks == { <<"k">>, <<"k", "<", "b", "r", ">", "<", "b", "r", ">", "e">> }
EntryTypes == {"b", "br", "n", "x"}
Entries == { <<w, b, t>> : w \in {WordList[1], WordList[2]}, b \in EntryBacks, t \in EntryTypes }

EntryLists == UNION { [1..n -> Entries] : n \in 0..MaxCards }

InitWrite ==
    /\ pc = "write_anki"
    /\ gui = FALSE
    /\ pregen_llm = FALSE
    /\ words = <<>>
    /\ pregen_defs = <<>>
    /\ PoolIdle
    /\ widx = 0
    /\ defs = <<>>
    /\ d = <<>>
    /\ ex = <<>>
    /\ anki_cards \in EntryLists
    /\ skipped = <<>>
    /\ files = NoFiles
    /\ calls = <<>>
    /\ scraped = <<>>
    /\ fate = <<>>
    /\ llm_failed = FALSE
    /\ ex_log = <<>>
    /\ last_input = NoInput
    /\ GuiIdle
    /\ FetchIdle
    /\ PureIdle

WriteAnki ==
    /\ pc = "write_anki"
    /\ files' = write_anki(anki_cards, files)
    /\ pc' = "written"
    /\ UNCHANGED <<gui, pregen_llm, words, pregen_defs, poolVars, widx, defs, d, ex,
                   anki_cards, skipped, calls, scraped, fate, llm_failed, ex_log, last_input,
                   guiVars, fetchVars, pureVars>>

NextWrite == WriteAnki

SpecWrite == InitWrite /\ [][NextWrite]_vars

(***************************************************************************)
(* fetch_definitions on its own, one request at a time                     *)
(***************************************************************************)
InitFetch ==
    /\ pc = "fetch"
    /\ gui = FALSE
    /\ pregen_llm = FALSE
    /\ words = <<>>
    /\ pregen_defs = <<>>
    /\ PoolIdle
    /\ CliIdle
    /\ GuiIdle
    /\ fd_outs \in FetchPatterns
    /\ fd_n = 1
    /\ fd_pc = "loop"
    /\ fd_ret = <<>>
    /\ fd_log = <<>>
    /\ PureIdle

\* lines 53-63: one pass of the loop; after the last pass, return []
FetchAttempt ==
    /\ fd_pc = "loop"
    /\ fd_n <= Retries
    /\ LET a == fetch_attempt(fd_outs[fd_n])
       IN /\ fd_log' = fd_log \o <<"get">> \o (IF a.sleeps THEN <<"sleep">> ELSE <<>>)
          /\ IF a.raises
             THEN fd_pc' = "raised" /\ UNCHANGED <<fd_n, fd_ret>>
             ELSE IF a.returns
             THEN fd_pc' = "returned" /\ fd_ret' = a.defs /\ UNCHANGED fd_n
             ELSE /\ fd_n' = fd_n + 1
                  /\ fd_pc' = IF fd_n = Retries THEN "returned" ELSE "loop"
                  /\ fd_ret' = <<>>
    /\ UNCHANGED <<runVars, poolVars, cliVars, last_input, guiVars, fd_outs, pureVars>>

NextFetch == FetchAttempt

SpecFetch == InitFetch /\ [][NextFetch]_vars

(***************************************************************************)
(* One card through each front end: the same word, definition, example and *)
(* card type given to the console loop and to the Wizard                   *)
(***************************************************************************)
CardDefs == { DEF_X, DEF_Y, <<"m">> }
CardExamples == { <<"e">>, <<"v">> }

\* the console answer that asks for a card type
CardAnswerFor(c) == CASE c = "b" -> <<"b">> [] c = "br" -> <<"r">> [] c = "n" -> <<"n">>

InitCard ==
    /\ pc = "card"
    /\ gui = FALSE
    /\ pregen_llm = FALSE
    /\ \E n \in 1..3 : words = << WordList[n] >>
    /\ pregen_defs = <<>>
    /\ PoolIdle
    /\ widx = 1
    /\ defs = <<>>
    /\ d \in CardDefs
    /\ ex \in CardExamples
    /\ anki_cards = <<>>
    /\ skipped = <<>>
    /\ files = NoFiles
    /\ calls = <<>>
    /\ scraped = <<>>
    /\ fate = <<>>
    /\ llm_failed = FALSE
    /\ ex_log = <<>>
    /\ last_input = NoInput
    /\ orig_words = words
    /\ data = << NoData >>
    /\ i = 0
    /\ word_var = words[1]
    /\ def_txt = d
    /\ ex_txt = ex
    /\ card_type \in CardTypes
    /\ results = <<>>
    /\ edits = 0
    /\ FetchIdle
    /\ PureIdle

\* run_cli line 190-193 for the word, then the end of the loop
CardCli ==
    /\ pc \in {"card", "card_gui"}
    /\ anki_cards' = anki_cards \o cli_card(words[widx], d, ex, lower(CardAnswerFor(card_type)))
    /\ pc' = IF pc = "card" THEN "card_cli" ELSE "card_both"
    /\ UNCHANGED <<gui, pregen_llm, words, pregen_defs, poolVars, widx, defs, d, ex, skipped,
                   files, calls, scraped, fate, llm_failed, ex_log, last_input, guiVars, fetchVars, pureVars>>

\* Wizard.next on the last entry: save_current, then finish's results
CardGui ==
    /\ pc \in {"card", "card_cli"}
    /\ LET g == save_current(GuiNow)
       IN /\ data' = g.data
          /\ results' = finish_results(g.data)
          /\ i' = i + 1
    /\ pc' = IF pc = "card" THEN "card_gui" ELSE "card_both"
    /\ UNCHANGED <<gui, pregen_llm, words, pregen_defs, poolVars, cliVars, last_input,
                   orig_words, word_var, def_txt, ex_txt, card_type, edits, fetchVars, pureVars>>

NextCard == CardCli \/ CardGui

SpecCard == InitCard /\ [][NextCard]_vars

(***************************************************************************)
(* Properties                                                              *)
(***************************************************************************)
IsBasic(c) == c[3] = "b"
IsReversed(c) == c[3] = "br"
IsWritten(c) == c[3] \in {"b", "br"}

FrontBack(cards) == [p \in 1..Len(cards) |-> <<cards[p][1], cards[p][2]>>]

DataRows(file) == IF file.written THEN Tail(file.rows) ELSE <<>>

Fronts(file) == {DataRows(file)[p][1] : p \in 1..Len(DataRows(file))}

\* C1: after write_anki(entries) the basic file holds the header row and then
\* exactly the entries of type 'b', in the order given, the reversed file the
\* same for type 'br'; a file is written iff its partition is non-empty; the
\* entries of any other type are in neither file.
C1_WriteAnkiPartitions ==
    pc = "written" =>
        /\ files.basic.written <=> (\E p \in 1..Len(anki_cards) : IsBasic(anki_cards[p]))
        /\ files.rev.written <=> (\E p \in 1..Len(anki_cards) : IsReversed(anki_cards[p]))
        /\ files.basic.written =>
              files.basic.rows = <<HeaderRow>> \o FrontBack(SelectSeq(anki_cards, IsBasic))
        /\ files.rev.written =>
              files.rev.rows = <<HeaderRow>> \o FrontBack(SelectSeq(anki_cards, IsReversed))
        /\ Len(DataRows(files.basic)) + Len(DataRows(files.rev))
              = Len(SelectSeq(anki_cards, IsWritten))

C1_Witness ==
    /\ pc = "written"
    /\ files.basic.written
    /\ ~files.rev.written
    /\ \E p \in 1..Len(anki_cards) : ~IsWritten(anki_cards[p])

HasBasicType(e) == e.has /\ e.card_type = "b"
HasReversedType(e) == e.has /\ e.card_type = "br"

WordText(entries) == [p \in 1..Len(entries) |-> <<entries[p].word, entries[p].text>>]

\* C2: when a run of either front end has ended, no word skipped at the
\* definition prompt or answered (n)one, and no Wizard entry whose card type
\* is 'n', is a row of an output file: the rows are exactly the entries whose
\* final card type is 'b' or 'br'.
C2_DiscardedNeverWritten ==
    pc = "done" =>
        IF gui
        THEN /\ DataRows(files.basic) = WordText(SelectSeq(data, HasBasicType))
             /\ DataRows(files.rev) = WordText(SelectSeq(data, HasReversedType))
        ELSE /\ \A j \in 1..Len(words) :
                    fate[j] \in {"skipped", "none"} =>
                        words[j] \notin Fronts(files.basic) \cup Fronts(files.rev)
             /\ DataRows(files.basic) = FrontBack(SelectSeq(anki_cards, IsBasic))
             /\ DataRows(files.rev) = FrontBack(SelectSeq(anki_cards, IsReversed))
             /\ \A p \in 1..Len(anki_cards) : IsWritten(anki_cards[p])

C2_Witness ==
    /\ pc = "done"
    /\ gui
    /\ \E j \in 1..Len(data) : data[j].has /\ data[j].card_type = "n"
    /\ files.basic.written

\* the claim's notion of a malformed answer to the definition prompt
MalformedDefinitionAnswer(raw, shown) ==
    LET c == strip(lower(raw))
    IN /\ c \notin { <<"s">>, <<"l">> }
       /\ ~(c # <<>> /\ IntParses(c) /\ int(c) \in 1..shown)

\* C3: after a malformed answer to the definition prompt the console is at
\* the definition prompt of the same word again.
C3_MalformedDefinitionAnswerRepeatsPrompt ==
    (last_input.prompt = "def" /\ MalformedDefinitionAnswer(last_input.raw, last_input.shown))
        => (pc = "def_prompt" /\ widx = last_input.widx)

\* the claim's notion of a malformed answer to the card-type prompt
MalformedCardAnswer(raw) == lower(raw) \notin { <<"b">>, <<"r">>, <<"n">> }

\* C4: after a malformed answer to the card-type prompt no card entry has been
\* accumulated for the word and the console is at its card-type prompt again.
C4_MalformedCardAnswerRepeatsPrompt ==
    (last_input.prompt = "card" /\ MalformedCardAnswer(last_input.raw))
        => /\ pc = "card_prompt"
           /\ widx = last_input.widx
           /\ \A p \in 1..Len(anki_cards) : anki_cards[p][1] # words[last_input.widx]

SeqToSet(seq) == {seq[p] : p \in 1..Len(seq)}

\* C5: at the end of a completed console run the reported skipped list holds
\* every word skipped at the definition prompt or discarded at the card-type
\* prompt, and no word for which a card entry was accumulated.
C5_SkippedListsEveryWordWithoutCard ==
    (pc = "done" /\ ~gui) =>
        \A j \in 1..Len(words) :
            /\ fate[j] \in {"skipped", "none"} => words[j] \in SeqToSet(skipped)
            /\ fate[j] = "card" => words[j] \notin SeqToSet(skipped)

Succeeds(o) == o.kind = "ok200" /\ o.defs # <<>>

Gets(log) == Len(SelectSeq(log, LAMBDA e : e = "get"))

\* C6: fetch_definitions returns the definitions of the first attempt that
\* answers 200 with definitions and makes no request after it; when no
\* attempt succeeds it returns [] after Retries requests; it never raises
\* and never makes more than Retries requests.
C6_FetchRetries ==
    /\ fd_pc # "raised"
    /\ Gets(fd_log) <= Retries
    /\ fd_pc = "returned" =>
          LET ok == {n \in 1..Retries : Succeeds(fd_outs[n])}
          IN IF ok = {}
             THEN fd_ret = <<>> /\ Gets(fd_log) = Retries
             ELSE LET first == CHOOSE n \in ok : \A m \in ok : n <= m
                  IN fd_ret = fd_outs[first].defs /\ Gets(fd_log) = first

C6_Witness ==
    /\ fd_pc = "returned"
    /\ fd_outs[1].kind = "exception"
    /\ fd_outs[2].kind = "non200"
    /\ Succeeds(fd_outs[3])
    /\ fd_ret = fd_outs[3].defs

PoolReturned == tasks # <<>> /\ collected = Len(tasks)

\* C7: no word's task is run more than once and no key is written more than
\* once; when pregen_definitions returns, the mapping has exactly one key per
\* word, each mapped to the definition its one task produced.
C7_PregenOneEntryPerWord ==
    /\ \A t \in 1..Len(tasks) : tasks[t].runs <= 1
    /\ Len(progress) = collected
    /\ \A p, q \in 1..Len(progress) : progress[p] = progress[q] => p = q
    /\ Len(pregen_defs) = collected
    /\ \A t \in 1..collected :
          /\ tasks[t].runs = 1
          /\ pregen_defs[t] = <<progress[t], tasks[t].text>>
          /\ (pc = "pregen" \/ ~gui) => progress[t] = words[t]
    /\ PoolReturned => Cardinality(DictKeys(pregen_defs)) = Len(tasks)

C7_Witness ==
    /\ PoolReturned
    /\ pc \notin {"pregen", "pregen_shutdown", "aborted"}
    /\ Len(tasks) = MaxWords
    /\ Cardinality(DictKeys(pregen_defs)) = MaxWords

\* C8: in a console run an LLM call that raises ends the run; the output
\* files are written only when the run completes, so an aborted run has
\* written no file whatever it had accumulated.
C8_LlmFailureAbortsWithoutOutput ==
    ~gui =>
        /\ llm_failed => pc = "aborted"
        /\ (\E t \in 1..Len(tasks) : tasks[t].st = "failed")
              => pc \in {"pregen", "pregen_shutdown", "aborted"}
        /\ pc \in {"start", "pregen", "pregen_shutdown", "def_prompt", "card_prompt", "aborted"}
              => files = NoFiles

C8_Witness ==
    /\ ~gui
    /\ pc = "aborted"
    /\ llm_failed
    /\ anki_cards # <<>>
    /\ files = NoFiles

\* C9: the console and the Wizard make the same card entry (front, back,
\* card type) out of the same word, definition, example and card type.
C9_FrontEndsMakeTheSameCard ==
    pc = "card_both" => anki_cards = results

\* C10: whenever definitions were looked up for the word shown (no
\* pre-generated definition, no saved text), the scrape came first, the LLM
\* was asked if and only if the scrape returned nothing, and the candidate
\* list presented is not empty.
C10_ScrapeFirstThenLlmFallback ==
    /\ pc = "def_prompt" => calls # <<>> /\ Head(calls) = "scrape"
    /\ (pc \in {"def_prompt", "gui"} /\ calls # <<>> /\ Head(calls) \notin {"saved", "pregen"})
          => /\ Head(calls) = "scrape"
             /\ (Len(calls) >= 2 /\ calls[2] = "llm") <=> (scraped = <<>>)
             /\ "raised" \notin SeqToSet(calls) => defs # <<>>

C10_Witness ==
    /\ pc = "def_prompt"
    /\ scraped = <<>>
    /\ calls = <<"scrape", "llm">>
    /\ Len(defs) = 1

(***************************************************************************)
(* Word-list loading on its own: every list of lines up to MaxLines        *)
(***************************************************************************)
\* the characters of the class [A-Za-z]
AsciiLetters ==
    { "a", "b", "c", "d", "e", "f", "g", "h", "i", "j", "k", "l", "m",
      "n", "o", "p", "q", "r", "s", "t", "u", "v", "w", "x", "y", "z",
      "A", "B", "C", "D", "E", "F", "G", "H", "I", "J", "K", "L", "M",
      "N", "O", "P", "Q", "R", "S", "T", "U", "V", "W", "X", "Y", "Z" }

RECURSIVE fullmatch_letters(_)
\* re.fullmatch(r'[A-Za-z]+', s)
fullmatch_letters(s) ==
    IF s = <<>> THEN FALSE
    ELSE IF Head(s) \notin AsciiLetters THEN FALSE
    ELSE IF Len(s) = 1 THEN TRUE
    ELSE fullmatch_letters(Tail(s))

RECURSIVE FromKeys(_, _)
\* OrderedDict.fromkeys: a key already present keeps its place
FromKeys(seq, keys) ==
    IF seq = <<>> THEN keys
    ELSE FromKeys(Tail(seq),
                  IF \E p \in 1..Len(keys) : keys[p] = Head(seq)
                  THEN keys ELSE Append(keys, Head(seq)))

RECURSIVE dedupe_keep_last(_)
\* a dedupe in which a later duplicate replaces the earlier one
dedupe_keep_last(seq) ==
    IF seq = <<>> THEN <<>>
    ELSE IF \E p \in 2..Len(seq) : seq[p] = Head(seq)
    THEN dedupe_keep_last(Tail(seq))
    ELSE <<Head(seq)>> \o dedupe_keep_last(Tail(seq))

dedupe(seq) == FromKeys(seq, <<>>)

RECURSIVE StrippedMatches(_)
\* [w.strip() for w in lines if re.fullmatch(r'[A-Za-z]+', w.strip())]
StrippedMatches(lines) ==
    IF lines = <<>> THEN <<>>
    ELSE (IF fullmatch_letters(strip(Head(lines))) THEN <<strip(Head(lines))>> ELSE <<>>)
         \o StrippedMatches(Tail(lines))

\* run_cli, lines 149-150
run_cli_words(lines) == dedupe(StrippedMatches(lines))

\* run_gui, lines 398-399
run_gui_words(lines) == dedupe(StrippedMatches(lines))

\* the lines a word file may hold ("e_acute" stands for U+00E9)
FileLines ==
    { <<"c">>, <<" ", "c", " ">>, <<"C">>, <<"c", "1">>, <<>>, <<"d">>,
      <<"c", " ", "d">>, <<"c", "e_acute">> }

NoWords == [cli |-> <<>>, gui |-> <<>>]

InitLoad ==
    /\ pc = "load"
    /\ gui = FALSE
    /\ pregen_llm = FALSE
    /\ words = <<>>
    /\ pregen_defs = <<>>
    /\ PoolIdle
    /\ CliIdle
    /\ GuiIdle
    /\ FetchIdle
    /\ arg \in UNION { [1..n -> FileLines] : n \in 0..MaxLines }
    /\ ret = NoWords

LoadCli ==
    /\ pc \in {"load", "load_gui"}
    /\ ret' = [ret EXCEPT !.cli = run_cli_words(arg)]
    /\ pc' = IF pc = "load" THEN "load_cli" ELSE "load_both"
    /\ UNCHANGED <<gui, pregen_llm, words, pregen_defs, poolVars, cliVars, last_input,
                   guiVars, fetchVars, arg>>

LoadGui ==
    /\ pc \in {"load", "load_cli"}
    /\ ret' = [ret EXCEPT !.gui = run_gui_words(arg)]
    /\ pc' = IF pc = "load" THEN "load_gui" ELSE "load_both"
    /\ UNCHANGED <<gui, pregen_llm, words, pregen_defs, poolVars, cliVars, last_input,
                   guiVars, fetchVars, arg>>

NextLoad == LoadCli \/ LoadGui

SpecLoad == InitLoad /\ [][NextLoad]_vars

\* the claim's rule: trimmed, the line is non-empty and all letters
IsWordLine(line) ==
    /\ strip(line) # <<>>
    /\ \A p \in 1..Len(strip(line)) : strip(line)[p] \in AsciiLetters

\* the first line that holds the word
FirstLine(lines, w) ==
    CHOOSE k \in 1..Len(lines) :
        /\ strip(lines[k]) = w
        /\ \A m \in 1..(k - 1) : strip(lines[m]) # w

LoadsByRule(lines, ws) ==
    /\ SeqToSet(ws) = {strip(lines[k]) : k \in {m \in 1..Len(lines) : IsWordLine(lines[m])}}
    /\ \A p, q \in 1..Len(ws) : p < q =>
          /\ ws[p] # ws[q]
          /\ FirstLine(lines, ws[p]) < FirstLine(lines, ws[q])

\* C11: the loaded word list holds exactly the trimmed lines that are
\* non-empty and all letters, each once, in the order of their first
\* occurrence (duplicates compared case-sensitively); the console and the
\* Wizard load the same list.
C11_WordListLoading ==
    /\ pc \in {"load_cli", "load_both"} => LoadsByRule(arg, ret.cli)
    /\ pc \in {"load_gui", "load_both"} => LoadsByRule(arg, ret.gui)
    /\ pc = "load_both" => ret.cli = ret.gui

C11_Witness ==
    /\ pc = "load_both"
    /\ arg = << <<"d">>, <<" ", "c", " ">>, <<"c">>, <<"C">> >>
    /\ ret.cli = << <<"d">>, <<"c">>, <<"C">> >>
    /\ ret.gui = ret.cli

(***************************************************************************)
(* parse_definitions on its own                                            *)
(***************************************************************************)
APPLE == <<"a", "p", "p", "l", "e">>
NOUN_A_FRUIT == <<"(", "n", "o", "u", "n", ")", " ", "a", " ", "f", "r", "u", "i", "t">>
VERB_TO_PICK == <<"(", "v", "e", "r", "b", ")", " ", "t", "o", " ", "p", "i", "c", "k">>
NOUN_COLON_A_FRUIT == <<"(", "n", "o", "u", "n", ")", ":", " ", "a", " ", "f", "r", "u", "i", "t">>
VERB_COLON_TO_PICK == <<"(", "v", "e", "r", "b", ")", ":", " ", "t", "o", " ", "p", "i", "c", "k">>
A_FRUIT == <<"a", " ", "f", "r", "u", "i", "t">>
TO_PICK == <<"t", "o", " ", "p", "i", "c", "k">>

\* the segments of a definition text
Segments ==
    { NOUN_A_FRUIT, VERB_TO_PICK, NOUN_COLON_A_FRUIT, VERB_COLON_TO_PICK,
      <<"p">>, <<"p", ":", " ", "q">> }

\* the text "1. a\n2. b"
Enumerated(a, b) == <<"1", ".", " ">> \o a \o <<"\n", "2", ".", " ">> \o b

DefinitionTexts == {Enumerated(a, b) : a, b \in Segments} \cup Segments

InitParse ==
    /\ pc = "parse"
    /\ gui = FALSE
    /\ pregen_llm = FALSE
    /\ words = <<>>
    /\ pregen_defs = <<>>
    /\ PoolIdle
    /\ CliIdle
    /\ GuiIdle
    /\ FetchIdle
    /\ arg \in [def_text : DefinitionTexts, word : {APPLE, WordList[1]}]
    /\ ret = <<>>

ParseDefinitions ==
    /\ pc = "parse"
    /\ ret' = parse_definitions(arg.def_text, arg.word)
    /\ pc' = "parsed"
    /\ UNCHANGED <<gui, pregen_llm, words, pregen_defs, poolVars, cliVars, last_input,
                   guiVars, fetchVars, arg>>

NextParse == ParseDefinitions

SpecParse == InitParse /\ [][NextParse]_vars

APPLE_NOUN == APPLE \o <<" ", "(", "n", "o", "u", "n", ")">>
APPLE_VERB == APPLE \o <<" ", "(", "v", "e", "r", "b", ")">>
APPLE_SENSE_1 == APPLE \o <<" ", "(", "s", "e", "n", "s", "e", " ", "1", ")">>
APPLE_SENSE_2 == APPLE \o <<" ", "(", "s", "e", "n", "s", "e", " ", "2", ")">>

\* C12: parse_definitions("1. (noun) a fruit\n2. (verb) to pick", "apple")
\* returns [("apple (noun)", "a fruit"), ("apple (verb)", "to pick")].
C12_ParenthesisedLabelIsSplitOff ==
    (pc = "parsed" /\ arg.word = APPLE /\ arg.def_text = Enumerated(NOUN_A_FRUIT, VERB_TO_PICK))
        => ret = << <<APPLE_NOUN, A_FRUIT>>, <<APPLE_VERB, TO_PICK>> >>

\* C12 amended: on "1. (noun) a fruit\n2. (verb) to pick" parse_definitions
\* returns [("apple (sense 1)", "(noun) a fruit"), ("apple (sense 2)", "(verb) to pick")]:
\* a segment without a colon is labelled by its position and kept whole. The
\* label is the text before a segment's first colon, without its parentheses
\* and spaces: "1. (noun): a fruit\n2. (verb): to pick" returns
\* [("apple (noun)", "a fruit"), ("apple (verb)", "to pick")].
C12_LabelIsTheTextBeforeTheColon ==
    (pc = "parsed" /\ arg.word = APPLE) =>
        /\ arg.def_text = Enumerated(NOUN_A_FRUIT, VERB_TO_PICK)
              => ret = << <<APPLE_SENSE_1, NOUN_A_FRUIT>>, <<APPLE_SENSE_2, VERB_TO_PICK>> >>
        /\ arg.def_text = Enumerated(NOUN_COLON_A_FRUIT, VERB_COLON_TO_PICK)
              => ret = << <<APPLE_NOUN, A_FRUIT>>, <<APPLE_VERB, TO_PICK>> >>
        /\ arg.def_text = Enumerated(NOUN_COLON_A_FRUIT, VERB_TO_PICK)
              => ret = << <<APPLE_NOUN, A_FRUIT>>, <<APPLE_SENSE_2, VERB_TO_PICK>> >>

C12_Witness ==
    /\ pc = "parsed"
    /\ arg.word = APPLE
    /\ arg.def_text = Enumerated(NOUN_COLON_A_FRUIT, VERB_COLON_TO_PICK)
    /\ ret = << <<APPLE_NOUN, A_FRUIT>>, <<APPLE_VERB, TO_PICK>> >>

(***************************************************************************)
(* find_contexts on its own                                                *)
(***************************************************************************)
\* the characters \w matches
WordChars == AsciiLetters \cup AsciiDigits \cup {"_"}

\* re.IGNORECASE compares characters by their case-folded form
casefold(c) ==
    CASE c = "A" -> "a"
      [] c = "B" -> "b"
      [] OTHER -> c

\* \b between the characters p - 1 and p of s (1-based; outside s is no word
\* character)
WordBoundary(s, p) ==
    LET before == p > 1 /\ p - 1 <= Len(s) /\ s[p - 1] \in WordChars
        after == p >= 1 /\ p <= Len(s) /\ s[p] \in WordChars
    IN before # after

\* the pattern \b<word>\b matches s at p
MatchesAt(s, word, p) ==
    /\ p >= 1
    /\ p + Len(word) - 1 <= Len(s)
    /\ \A k \in 1..Len(word) : casefold(s[p + k - 1]) = casefold(word[k])
    /\ WordBoundary(s, p)
    /\ WordBoundary(s, p + Len(word))

RECURSIVE finditer(_, _, _)
\* rgx.finditer(text): the starts of the matches, leftmost first, each search
\* resuming where the previous match ended
finditer(text, word, from) ==
    IF from > Len(text) THEN <<>>
    ELSE IF MatchesAt(text, word, from)
    THEN <<from>> \o finditer(text, word, from + Len(word))
    ELSE finditer(text, word, from + 1)

\* .replace('\n', ' ')
replace_newlines(s) == [p \in 1..Len(s) |-> IF s[p] = "\n" THEN " " ELSE s[p]]

\* text[max(0, m.start() - span):m.end() + span].replace('\n', ' ').strip()
Snippet(text, word, start, span) ==
    LET lo == IF start - span < 1 THEN 1 ELSE start - span
        end == start + Len(word) - 1
        hi == IF end + span > Len(text) THEN Len(text) ELSE end + span
    IN strip(replace_newlines(SubSeq(text, lo, hi)))

\* a find_contexts that returns a snippet for every match
find_contexts_unlimited(text, word, span, max_ctx) ==
    LET ms == finditer(text, word, 1)
    IN [k \in 1..Len(ms) |-> Snippet(text, word, ms[k], span)]

find_contexts(text, word, span, max_ctx) ==
    LET ms == finditer(text, word, 1)
        first == SubSeq(ms, 1, IF max_ctx < Len(ms) THEN max_ctx ELSE Len(ms))
    IN [k \in 1..Len(first) |-> Snippet(text, word, first[k], span)]

\* the characters of a book text
TextChars == {"a", "A", "b", " ", "\n"}

BookTexts == UNION { [1..n -> TextChars] : n \in 0..MaxTextLen }

InitContexts ==
    /\ pc = "find"
    /\ gui = FALSE
    /\ pregen_llm = FALSE
    /\ words = <<>>
    /\ pregen_defs = <<>>
    /\ PoolIdle
    /\ CliIdle
    /\ GuiIdle
    /\ FetchIdle
    /\ arg \in [text : BookTexts, word : { <<"a">>, <<"a", "b">> },
                span : 0..MaxSpan, max_ctx : 0..MaxCtx]
    /\ ret = <<>>

FindContexts ==
    /\ pc = "find"
    /\ ret' = find_contexts(arg.text, arg.word, arg.span, arg.max_ctx)
    /\ pc' = "found"
    /\ UNCHANGED <<gui, pregen_llm, words, pregen_defs, poolVars, cliVars, last_input,
                   guiVars, fetchVars, arg>>

NextContexts == FindContexts

SpecContexts == InitContexts /\ [][NextContexts]_vars

\* where the text holds a case-insensitive whole-word occurrence of the word
Occurrences(text, word) == {p \in 1..Len(text) : MatchesAt(text, word, p)}

\* the k-th occurrence in document order
KthOccurrence(text, word, k) ==
    CHOOSE p \in Occurrences(text, word) :
        Cardinality({q \in Occurrences(text, word) : q < p}) = k - 1

\* the snippets a window around the occurrence at p can give: at most radius
\* characters before its start and after its end, inside the text
WindowsAround(text, word, p, radius) ==
    { strip(replace_newlines(SubSeq(text, a, b))) :
        a \in {x \in 1..p : p - x <= radius},
        b \in {y \in (p + Len(word) - 1)..Len(text) : y - (p + Len(word) - 1) <= radius} }

\* C13: find_contexts returns at most max_ctx snippets; the k-th snippet is
\* cut around the k-th occurrence of the word in document order, none of the
\* first occurrences being passed over; it reaches at most span characters
\* before the occurrence and after it, inside the text, and it holds a
\* case-insensitive whole-word occurrence of the word.
C13_FindContexts ==
    pc = "found" =>
        LET occ == Occurrences(arg.text, arg.word)
        IN /\ Len(ret) <= arg.max_ctx
           /\ Len(ret) = (IF Cardinality(occ) < arg.max_ctx THEN Cardinality(occ)
                          ELSE arg.max_ctx)
           /\ \A k \in 1..Len(ret) :
                 /\ ret[k] \in WindowsAround(arg.text, arg.word,
                                             KthOccurrence(arg.text, arg.word, k), arg.span)
                 /\ Occurrences(ret[k], arg.word) # {}

C13_Witness ==
    /\ pc = "found"
    /\ arg.text = <<"b", "\n", "A", " ">>
    /\ arg.word = <<"a">>
    /\ arg.span = 1
    /\ arg.max_ctx = 1
    /\ ret = << <<"A">> >>

\* where the n-th request stands in the log
GetPos(log, n) ==
    CHOOSE p \in 1..Len(log) : log[p] = "get" /\ Gets(SubSeq(log, 1, p)) = n

\* C14: in fetch_definitions, between an attempt that ended in an exception
\* or in a status other than 200 and the attempt made after it, the loop has
\* slept.
C14_DelayAfterEveryFailedAttempt ==
    \A n \in 1..(Retries - 1) :
        (Gets(fd_log) > n /\ fd_outs[n].kind \in {"exception", "non200"})
            => \E p \in GetPos(fd_log, n)..GetPos(fd_log, n + 1) : fd_log[p] = "sleep"

\* the word show() displayed for the entry at the cursor
ShownWord == IF data[i + 1].has THEN data[i + 1].word ELSE orig_words[i + 1]

\* C15: with --pregen-llm no per-word step is reached before every task of
\* the batch has finished and its result has been taken; a word that is in
\* pregen_defs gets its definition from there, and a scrape (with its LLM
\* fallback) is made only for a word that is not in pregen_defs.
C15_PregenFirstThenCache ==
    (pregen_llm /\ words # <<>>) =>
        /\ pc \in {"def_prompt", "card_prompt", "gui", "done"} =>
              /\ tasks # <<>>
              /\ collected = Len(tasks)
              /\ \A t \in 1..Len(tasks) : tasks[t].st = "done"
        /\ (~gui /\ pc = "def_prompt") => ~DictHas(pregen_defs, words[widx])
        /\ (~gui /\ pc = "card_prompt" /\ DictHas(pregen_defs, words[widx])) =>
              /\ calls = <<"pregen">>
              /\ d = DictGet(pregen_defs, words[widx])
        /\ (gui /\ pc = "gui" /\ calls # <<>> /\ Head(calls) = "scrape") =>
              ~DictHas(pregen_defs, ShownWord)
        /\ (gui /\ pc = "gui" /\ calls = <<"pregen">>) =>
              DictHas(pregen_defs, ShownWord)

C15_Witness ==
    /\ pregen_llm
    /\ ~gui
    /\ pc = "card_prompt"
    /\ widx = MaxWords
    /\ calls = <<"pregen">>
    /\ d = DictGet(pregen_defs, words[widx])
    /\ \A t \in 1..Len(tasks) : tasks[t].runs = 1

\* the tasks whose result the main thread has to take before that of task u
TakenBefore(u) == (collected + 1)..(u - 1)

\* C16: during pre-generation the progress line of a finished task does not
\* wait for the task of an earlier word: no task whose result is taken
\* before it is still running.
C16_ProgressAsCompletionsArrive ==
    pc = "pregen" =>
        \A u \in 1..Len(tasks) :
            (tasks[u].st = "done" /\ words[u] \notin SeqToSet(progress))
                => \A t \in TakenBefore(u) : tasks[t].st # "running"

(***************************************************************************)
(* Wizard.split_word on its own: pressed once on any entry of a list of up *)
(* to three entries                                                        *)
(***************************************************************************)
\* what the Definition field may hold when Split is pressed
SplitTexts ==
    { <<"1", ".", "p", "\n", "2", ".", "q">>,
      <<"1", ".", "n", ":", "p", "\n", "2", ".", "q", "\n", "3", ".", "r">>,
      <<"p">>,
      <<>> }

\* an entry the operator has left before: its dict in Wizard.data
SavedEntry(w) == [has |-> TRUE, word |-> w, text |-> <<"k">>, card_type |-> "br"]

InitSplit ==
    /\ pc = "gui"
    /\ gui = TRUE
    /\ pregen_llm = FALSE
    /\ words \in {SubSeq(WordList, 1, n) : n \in 1..Len(WordList)}
    /\ pregen_defs = <<>>
    /\ PoolIdle
    /\ CliIdle
    /\ orig_words = words
    /\ data \in [1..Len(words) -> {NoData} \cup {SavedEntry(w) : w \in SeqToSet(WordList)}]
    /\ \A j \in 1..Len(words) : data[j].has => data[j].word = words[j]
    /\ i \in 0..(Len(words) - 1)
    /\ word_var = words[i + 1]
    /\ def_txt \in SplitTexts
    /\ ex_txt \in { <<>>, <<"v">> }
    /\ card_type = "b"
    /\ results = <<>>
    /\ edits = 0
    /\ FetchIdle
    /\ PureIdle

NextSplit == split_word

SpecSplit == InitSplit /\ [][NextSplit]_vars

\* the three lists of the Wizard hold the entry <<wd, ow, dt>> at position j
EntryAt(ws, ows, dts, j) == <<ws[j], ows[j], dts[j]>>

\* what split_word leaves of the lists and the cursor
SplitEffect ==
    LET new == parse_definitions(strip(def_txt \o <<"\n">>), strip(word_var))
        N == Len(new)
        old == Len(words)
    IN IF N > 1
       THEN /\ i' = i
            /\ Len(words') = old - 1 + N
            /\ Len(orig_words') = old - 1 + N
            /\ Len(data') = old - 1 + N
            /\ \A j \in 1..i :
                  EntryAt(words', orig_words', data', j) = EntryAt(words, orig_words, data, j)
            /\ \A j \in 1..N :
                  EntryAt(words', orig_words', data', i + j)
                    = << new[j][1], new[j][1],
                         [has |-> TRUE, word |-> new[j][1], text |-> new[j][2],
                          card_type |-> "b"] >>
            /\ \A j \in (i + 2)..old :
                  EntryAt(words', orig_words', data', j + N - 1)
                    = EntryAt(words, orig_words, data, j)
       ELSE UNCHANGED <<words, orig_words, data, i>>

\* C17: split_word on the entry at the cursor, when the definition field
\* parses into N > 1 pairs, puts N entries in its place at positions
\* i..i+N-1, in parsed order, each with its labelled word and its definition;
\* the cursor and the entries before and after keep their values; with one
\* pair the lists and the cursor do not change.
C17_SplitReplacesEntryBySiblings == [][split_word => SplitEffect]_vars

C17_Witness ==
    /\ pc = "gui"
    /\ i = 1
    /\ Len(words) = 5
    /\ words[1] = WordList[1]
    /\ words[5] = WordList[3]
    /\ data[1] = SavedEntry(WordList[1])
    /\ data[2].text = <<"p">>
    /\ data[3].text = <<"q">>
    /\ data[4].text = <<"r">>
    /\ words[2] = WordList[2] \o <<" ", "(", "n", ")">>
    /\ def_txt = <<"p">>

(***************************************************************************)
(* One visit of a Wizard entry: Next, then Prev                            *)
(***************************************************************************)
\* what the form may hold when the operator leaves the entry
LeftWords == { <<"c">>, <<" ", "c">>, <<"g">> }
LeftDefs == { <<"x">>, <<" ", "x">>, <<"x", "\n", "\n", "y">>, <<>> }
LeftExamples == { <<"v">>, <<>> }

\* the first of two entries is shown, the operator has filled the form in
InitRevisit ==
    /\ pc = "gui"
    /\ gui = TRUE
    /\ pregen_llm = FALSE
    /\ words = SubSeq(WordList, 1, 2)
    /\ pregen_defs = <<>>
    /\ PoolIdle
    /\ CliIdle
    /\ orig_words = words
    /\ data = << NoData, NoData >>
    /\ i = 0
    /\ word_var \in LeftWords
    /\ def_txt \in LeftDefs
    /\ ex_txt \in LeftExamples
    /\ card_type \in CardTypes
    /\ results = <<>>
    /\ edits = 0
    /\ FetchIdle
    /\ arg = [word |-> word_var, definition |-> def_txt, example |-> ex_txt,
              card_type |-> card_type]
    /\ ret = <<>>

\* Next on the entry not left before, then Prev from the second entry
NextRevisit ==
    \/ ~data[1].has /\ next
    \/ ~data[2].has /\ prev

SpecRevisit == InitRevisit /\ [][NextRevisit]_vars

\* the entry left with Next is shown again after Prev
Revisited == pc = "gui" /\ i = 0 /\ data[1].has

\* C18: after Next and then Prev the form shows the word, definition,
\* example and card type it showed when the entry was left, and they come
\* from what was saved: no scrape and no LLM call is made for the entry.
C18_RevisitRestoresTheEntry ==
    Revisited =>
        /\ word_var = arg.word
        /\ def_txt = arg.definition
        /\ ex_txt = arg.example
        /\ card_type = arg.card_type
        /\ calls = <<"saved">>

\* where a word stands in the word list
WordIndex(w) == CHOOSE j \in 1..Len(words) : words[j] = w

\* C19: in a console run gen_example is called at most once per word, in
\* word-list order, never for a word skipped or dropped at the definition
\* prompt and only with a definition chosen; a card entry exists only for a
\* word whose example was generated and whose card-type prompt was
\* answered; there is at most one entry per word and the entries stand in
\* word-list order.
C19_ConsoleStepsInOrder ==
    (~gui /\ pc \in {"def_prompt", "card_prompt", "done", "aborted"}) =>
        /\ \A p, q \in 1..Len(ex_log) : p < q => ex_log[p] < ex_log[q]
        /\ \A p \in 1..Len(ex_log) :
              /\ ex_log[p] \in 1..Len(words)
              /\ fate[ex_log[p]] \notin {"skipped", "bad choice"}
        /\ pc = "def_prompt" => widx \notin SeqToSet(ex_log)
        /\ pc = "card_prompt" =>
              /\ ex_log # <<>> /\ ex_log[Len(ex_log)] = widx
              /\ \/ calls = <<"pregen">> /\ d = DictGet(pregen_defs, words[widx])
                 \/ /\ last_input.prompt = "def"
                    /\ last_input.widx = widx
                    /\ d \in SeqToSet(scraped) \cup LlmDefTexts
              /\ \A p \in 1..Len(anki_cards) : anki_cards[p][1] # words[widx]
        /\ \A p \in 1..Len(anki_cards) :
              /\ anki_cards[p][1] \in SeqToSet(words)
              /\ WordIndex(anki_cards[p][1]) \in SeqToSet(ex_log)
              /\ fate[WordIndex(anki_cards[p][1])] = "card"
        /\ \A p, q \in 1..Len(anki_cards) :
              p < q => WordIndex(anki_cards[p][1]) < WordIndex(anki_cards[q][1])

C19_Witness ==
    /\ ~gui
    /\ pc = "done"
    /\ Len(words) = MaxWords
    /\ fate[1] = "skipped"
    /\ ex_log = << MaxWords >>
    /\ Len(anki_cards) = 1
    /\ anki_cards[1][1] = words[MaxWords]

\* C20: once the Wizard is constructed, words, orig_words and data have the
\* same length and 0 <= i <= len(words); finish has run exactly when
\* i = len(words).
C20_WizardListsAndCursor ==
    (gui /\ pc \in {"gui", "done"}) =>
        /\ Len(orig_words) = Len(words)
        /\ Len(data) = Len(words)
        /\ 0 <= i
        /\ i <= Len(words)
        /\ (pc = "done") <=> (i = Len(words))

C20_Witness ==
    /\ gui
    /\ pc = "done"
    /\ i = Len(words)
    /\ Len(words) = MaxEntries
    /\ Len(data) = MaxEntries
    /\ \E j \in 1..Len(words) : words[j] # orig_words[j] \/ words[j] \notin SeqToSet(WordList)

====
